---- MODULE Spec2Model ----
(***************************************************************************)
(* PopCraft: the catalog a PS1 loader reads (conf_apps.cfg, the ELF/VCD    *)
(* assets, the save folders, the artwork), the merge copy and the ISO/ZSO  *)
(* conversion environment, modelled from popstation_core.py and            *)
(* popstation_gui.py.                                                      *)
(*                                                                         *)
(* Text is a sequence of one-character strings, so that prefix tests,      *)
(* slices, regular-expression matches and extension splitting are computed *)
(* character by character as the Python code computes them.  An optional  *)
(* value (None or a value) is a sequence of length 0 or 1.                *)
(***************************************************************************)
EXTENDS Integers, Sequences, FiniteSets, TLC

VARIABLES
    nm_path, nm_res,
    conf_exists, conf, backups, now, root_files, pops_files, pops_dirs,
    art_files, last, nops, cwd_elf,
    t_src, t_dst, t_dst0, t_op, t_cb, t_phase, t_stack, t_writes, t_calls, t_ret,
    z_fn, z_exe, z_fs, z_in0, z_pc, z_ret,
    p2c_vcd, p2c_exe, p2c_files, p2c_rc, p2c_ret,
    d_code, d_desc, d_desc0, d_cfg, d_ret,
    q_files, q_i, q_pc, q_procs, q_rc, q_ledger,
    chd_line, chd_last_pct, chd_call

----------------------------------------------------------------------------
(* Text helpers (Python str / os.path / re).                               *)

NoneV == << >>
Some(x) == << x >>

\* str.startswith
StartsWith(s, p) == Len(p) <= Len(s) /\ SubSeq(s, 1, Len(p)) = p

\* s[i:j] of Python for 0 <= i, 0 <= j (already normalised indices)
Slice(s, i, j) == IF j <= i THEN << >> ELSE SubSeq(s, i + 1, j)

\* str.find(c, start): least 1-based index >= from holding c, 0 when none
RECURSIVE Find(_, _, _)
Find(s, c, from) ==
    IF from > Len(s) THEN 0
    ELSE IF s[from] = c THEN from
    ELSE Find(s, c, from + 1)

\* str.rfind(c): greatest 1-based index holding c, 0 when none
RECURSIVE RFindFrom(_, _, _)
RFindFrom(s, c, i) ==
    IF i = 0 THEN 0
    ELSE IF s[i] = c THEN i
    ELSE RFindFrom(s, c, i - 1)

RFind(s, c) == RFindFrom(s, c, Len(s))

IsSpace(c) == c = " "

RECURSIVE LStrip(_)
LStrip(s) ==
    IF s = << >> THEN s
    ELSE IF IsSpace(s[1]) THEN LStrip(Tail(s))
    ELSE s

RECURSIVE RStrip(_)
RStrip(s) ==
    IF s = << >> THEN s
    ELSE IF IsSpace(s[Len(s)]) THEN RStrip(SubSeq(s, 1, Len(s) - 1))
    ELSE s

\* str.lstrip() in place of str.strip()
StripLeftOnly(s) == LStrip(s)

\* str.strip()
Strip(s) == RStrip(LStrip(s))

LowerChar(c) ==
    CASE c = "C" -> "c"
      [] c = "U" -> "u"
      [] c = "E" -> "e"
      [] c = "B" -> "b"
      [] c = "I" -> "i"
      [] c = "N" -> "n"
      [] OTHER -> c

\* str.lower()
Lower(s) == [i \in 1..Len(s) |-> LowerChar(s[i])]

\* str.replace(pat, "") : every non-overlapping occurrence, left to right
RECURSIVE RemoveAll(_, _)
RemoveAll(s, pat) ==
    IF s = << >> \/ pat = << >> THEN s
    ELSE IF StartsWith(s, pat) THEN RemoveAll(SubSeq(s, Len(pat) + 1, Len(s)), pat)
    ELSE << s[1] >> \o RemoveAll(Tail(s), pat)

\* os.path.basename: the text after the last separator
Basename(p) ==
    LET k == RFind(p, "/") IN SubSeq(p, k + 1, Len(p))

\* genericpath._splitext: is there a character other than '.' in p[from..dot-1]
RECURSIVE HasNonDot(_, _, _)
HasNonDot(p, from, dot) ==
    IF from >= dot THEN FALSE
    ELSE IF p[from] # "." THEN TRUE
    ELSE HasNonDot(p, from + 1, dot)

\* os.path.splitext: << root, ext >>; leading dots of the name are no extension
Splitext(p) ==
    LET sepIndex == RFind(p, "/")
        dotIndex == RFind(p, ".")
    IN  IF dotIndex > sepIndex /\ HasNonDot(p, sepIndex + 1, dotIndex)
        THEN << SubSeq(p, 1, dotIndex - 1), SubSeq(p, dotIndex, Len(p)) >>
        ELSE << p, << >> >>

\* A greedy group, r"\[(.*)\]": closed by the last ']' instead of the nearest.
ReSearchBracketGreedy(s) ==
    LET i == Find(s, "[", 1)
        j == IF i = 0 THEN 0 ELSE RFind(s, "]")
    IN  IF i = 0 \/ j <= i THEN NoneV
        ELSE Some([start |-> i, end |-> j, group |-> SubSeq(s, i + 1, j - 1)])

\* re.search(r"\[(.*?)\]", s): the leftmost '[' that a ']' follows, lazily
\* closed by the nearest ']'.  << >> when there is no match, else
\* << [start, end, group] >> (1-based positions of '[' and ']').
ReSearchBracket(s) ==
    LET i == Find(s, "[", 1)
        j == IF i = 0 THEN 0 ELSE Find(s, "]", i + 1)
    IN  IF i = 0 \/ j = 0 THEN NoneV
        ELSE Some([start |-> i, end |-> j, group |-> SubSeq(s, i + 1, j - 1)])

\* re.sub(r"\[.*?\]", "", s): every match removed, scanning on after each match
RECURSIVE ReSubBrackets(_)
ReSubBrackets(s) ==
    LET m == ReSearchBracket(s)
    IN  IF m = NoneV THEN s
        ELSE SubSeq(s, 1, m[1].start - 1)
             \o ReSubBrackets(SubSeq(s, m[1].end + 1, Len(s)))

----------------------------------------------------------------------------
(* Literals of the program.                                                *)

XX_PREFIX == << "X", "X", "." >>
ELF_SUFFIX == << ".", "E", "L", "F" >>
VCD_SUFFIX == << ".", "V", "C", "D" >>
MASS_PREFIX == << "m", "a", "s", "s", ":", "/" >>
COV_TAG == << ".", "E", "L", "F", "_", "C", "O", "V" >>
LGO_TAG == << ".", "E", "L", "F", "_", "L", "G", "O" >>
EXT_CHD == << ".", "c", "h", "d" >>
EXT_CUE == << ".", "c", "u", "e" >>
EXT_BIN == << ".", "b", "i", "n" >>
EXT_ISO == << ".", "i", "s", "o" >>
EXT_PNG == << ".", "p", "n", "g" >>
EXT_JPG == << ".", "j", "p", "g" >>
EXT_MDF == << ".", "m", "d", "f" >>
EXT_ECM == << ".", "e", "c", "m" >>
EXT_IMG == << ".", "i", "m", "g" >>
EXT_GDI == << ".", "g", "d", "i" >>
EXT_ZSO == << ".", "z", "s", "o" >>
EXT_JPEG == << ".", "j", "p", "e", "g" >>
EXT_BMP == << ".", "b", "m", "p" >>

----------------------------------------------------------------------------
(* process_game, lines 632-642: every name derived from the input path.    *)

Truthy(opt) == opt # NoneV /\ opt[1] # << >>

process_game_names(file_path) ==
    LET original_name == Basename(file_path)
        sp == Splitext(original_name)
        game_name == sp[1]
        ext == Lower(sp[2])
        match == ReSearchBracket(game_name)
        code_in_brackets == IF match # NoneV THEN Some(match[1].group) ELSE NoneV
        base_name == IF Truthy(code_in_brackets) THEN code_in_brackets[1] ELSE game_name
    IN  [ original_name |-> original_name,
          game_name |-> game_name,
          ext |-> ext,
          code_in_brackets |-> code_in_brackets,
          base_name |-> base_name,
          elf_name |-> XX_PREFIX \o base_name \o ELF_SUFFIX,
          elf_name_no_ext |-> base_name,
          vcd_name |-> IF Truthy(code_in_brackets)
                       THEN code_in_brackets[1] \o VCD_SUFFIX
                       ELSE game_name \o VCD_SUFFIX,
          save_folder_name |-> base_name,
          conf_name |-> Strip(ReSubBrackets(game_name)) ]

----------------------------------------------------------------------------
(* The ledger conf_apps.cfg: a sequence of lines, each written with its    *)
(* terminating newline, held here without it.  The backup folder: a set of *)
(* [ts, content] records, one per file name conf_apps_<ts>.bak.            *)

EQ == << "=" >>

\* update_conf_apps, line 504
LedgerEntry(game_key, elf_name) == game_key \o EQ \o MASS_PREFIX \o elf_name

\* No backup is taken.
backup_conf_file_never(exists, lines, bk, ts) == bk

\* backup_conf_file: nothing without a ledger; otherwise the ledger is copied
\* to backup/conf_apps_<timestamp>.bak, replacing a file of that name.
backup_conf_file(exists, lines, bk, ts) ==
    IF ~exists THEN bk
    ELSE { b \in bk : b.ts # ts } \cup { [ts |-> ts, content |-> lines] }

\* The entry is appended whether or not a line was replaced.
RECURSIVE UpdateLoopAppend(_, _, _, _, _)
UpdateLoopAppend(lines, game_key, entry, new_lines, updated) ==
    IF lines = << >>
    THEN Append(new_lines, entry)
    ELSE IF StartsWith(Head(lines), game_key \o EQ)
         THEN UpdateLoopAppend(Tail(lines), game_key, entry, Append(new_lines, entry), TRUE)
         ELSE UpdateLoopAppend(Tail(lines), game_key, entry, Append(new_lines, Head(lines)), updated)

\* update_conf_apps, lines 509-518: the loop over the lines read
RECURSIVE UpdateLoop(_, _, _, _, _)
UpdateLoop(lines, game_key, entry, new_lines, updated) ==
    IF lines = << >>
    THEN IF ~updated THEN Append(new_lines, entry) ELSE new_lines
    ELSE IF StartsWith(Head(lines), game_key \o EQ)
         THEN UpdateLoop(Tail(lines), game_key, entry, Append(new_lines, entry), TRUE)
         ELSE UpdateLoop(Tail(lines), game_key, entry, Append(new_lines, Head(lines)), updated)

\* update_conf_apps: the lines written back to conf_apps.cfg
update_conf_apps(exists, lines, game_key, elf_name) ==
    UpdateLoop(IF exists THEN lines ELSE << >>, game_key,
               LedgerEntry(game_key, elf_name), << >>, FALSE)

\* get_elf_name_from_game_key, lines 543-548, for the matching line
ElfNameOfLine(line) ==
    LET eq == Find(line, "=", 1)
        elf_path == Strip(SubSeq(line, eq + 1, Len(line)))
        elf_name == Basename(RemoveAll(elf_path, MASS_PREFIX))
    IN  IF StartsWith(elf_name, XX_PREFIX)
        THEN Slice(elf_name, 3, Len(elf_name) - 4)
        ELSE Splitext(elf_name)[1]

\* get_elf_name_from_game_key: None, or the stem of the first matching line
RECURSIVE LookupLoop(_, _)
LookupLoop(lines, game_key) ==
    IF lines = << >> THEN NoneV
    ELSE IF StartsWith(Head(lines), game_key \o EQ)
         THEN Some(ElfNameOfLine(Head(lines)))
         ELSE LookupLoop(Tail(lines), game_key)

get_elf_name_from_game_key(exists, lines, game_key) ==
    IF ~exists THEN NoneV ELSE LookupLoop(lines, game_key)

\* str.replace(old, new, 1): the first occurrence only
RECURSIVE ReplaceFirst(_, _, _)
ReplaceFirst(s, old, new) ==
    IF StartsWith(s, old) THEN new \o SubSeq(s, Len(old) + 1, Len(s))
    ELSE IF s = << >> THEN s
    ELSE << s[1] >> \o ReplaceFirst(Tail(s), old, new)

\* rename_game, lines 749-754: the lines written back
rename_lines(lines, game_key, new_name) ==
    [ i \in 1..Len(lines) |->
        IF StartsWith(lines[i], game_key \o EQ)
        THEN ReplaceFirst(lines[i], game_key, new_name)
        ELSE lines[i] ]

\* delete_game, lines 789-792: the lines written back
RECURSIVE delete_lines(_, _)
delete_lines(lines, game_key) ==
    IF lines = << >> THEN << >>
    ELSE IF ~StartsWith(Head(lines), game_key \o EQ)
         THEN << Head(lines) >> \o delete_lines(Tail(lines), game_key)
         ELSE delete_lines(Tail(lines), game_key)

\* SUPPORTED_FORMATS + [".VCD"]
DiscExts ==
    { EXT_ISO, EXT_BIN, EXT_CUE, EXT_MDF, EXT_ECM, EXT_IMG, EXT_CHD, EXT_GDI,
      EXT_ZSO, VCD_SUFFIX }

ArtExts == { EXT_PNG, EXT_JPG, EXT_JPEG, EXT_BMP }

\* The cover is stored without the extension of the picture.
save_cover_noext(elf_name_no_ext, ext) == XX_PREFIX \o elf_name_no_ext \o COV_TAG

\* save_cover / save_logo: the file name written in ART
save_cover(elf_name_no_ext, ext) == XX_PREFIX \o elf_name_no_ext \o COV_TAG \o ext
save_logo(elf_name_no_ext, ext) == XX_PREFIX \o elf_name_no_ext \o LGO_TAG \o ext

\* refresh_manage_tab, lines 508-521: the keys shown as tiles, the only keys
\* rename_game and delete_game are called with
IsShownLine(line) ==
    /\ Find(line, "=", 1) # 0
    /\ LET game_key == SubSeq(Strip(line), 1, Find(Strip(line), "=", 1) - 1)
           elf == get_elf_name_from_game_key(conf_exists, conf, game_key)
       IN  /\ Truthy(elf)
           /\ \E ext \in DiscExts : (elf[1] \o ext) \in pops_files

ShownKeys ==
    IF ~conf_exists THEN {}
    ELSE { SubSeq(Strip(conf[i]), 1, Find(Strip(conf[i]), "=", 1) - 1) :
             i \in { k \in 1..Len(conf) : IsShownLine(conf[k]) } }

----------------------------------------------------------------------------
(* Naming specification: process_game's derivation applied to every short  *)
(* file path.                                                              *)

MaxNameLen == 4

NameChars == { "a", "b", "[", "]", " ", "." }

StringsUpTo(chars, n) == UNION { [1..k -> chars] : k \in 1..n }

DIR_PREFIX == << "d", "/" >>

NamePaths == { DIR_PREFIX \o s : s \in StringsUpTo(NameChars, MaxNameLen) }

nameVars == << nm_path, nm_res >>
catVars == << conf_exists, conf, backups, now, root_files, pops_files,
              pops_dirs, art_files, last, nops, cwd_elf >>
treeVars == << t_src, t_dst, t_dst0, t_op, t_cb, t_phase, t_stack, t_writes,
               t_calls, t_ret >>
zisoVars == << z_fn, z_exe, z_fs, z_in0, z_pc, z_ret >>
coreVars == << nameVars, catVars, treeVars, zisoVars >>
p2cVars == << p2c_vcd, p2c_exe, p2c_files, p2c_rc, p2c_ret >>
descVars == << d_code, d_desc, d_desc0, d_cfg, d_ret >>
seqVars == << q_files, q_i, q_pc, q_procs, q_rc, q_ledger >>
chdVars == << chd_line, chd_last_pct, chd_call >>
restVars == << p2cVars, descVars, seqVars, chdVars >>
vars == << coreVars, restVars >>

NameIdle == nm_path = << >> /\ nm_res = NoneV

CatIdle ==
    /\ conf_exists = FALSE
    /\ conf = << >>
    /\ backups = {}
    /\ now = 0
    /\ root_files = {}
    /\ pops_files = {}
    /\ pops_dirs = {}
    /\ art_files = {}
    /\ last = [op |-> "none"]
    /\ nops = 0
    /\ cwd_elf = FALSE

ZisoIdle ==
    /\ z_fn = "none"
    /\ z_exe = FALSE
    /\ z_fs = << >>
    /\ z_in0 = NoneV
    /\ z_pc = "idle"
    /\ z_ret = NoneV

TreeIdle ==
    /\ t_src = << >>
    /\ t_dst = << >>
    /\ t_dst0 = << >>
    /\ t_op = "none"
    /\ t_cb = "none"
    /\ t_phase = "idle"
    /\ t_stack = << >>
    /\ t_writes = {}
    /\ t_calls = {}
    /\ t_ret = [done |-> FALSE]

P2cIdle ==
    /\ p2c_vcd = << >>
    /\ p2c_exe = FALSE
    /\ p2c_files = {}
    /\ p2c_rc = NoneV
    /\ p2c_ret = NoneV

DescIdle ==
    /\ d_code = << >>
    /\ d_desc = NoneV
    /\ d_desc0 = NoneV
    /\ d_cfg = << >>
    /\ d_ret = NoneV

SeqIdle ==
    /\ q_files = << >>
    /\ q_i = 0
    /\ q_pc = "idle"
    /\ q_procs = {}
    /\ q_rc = 0
    /\ q_ledger = << >>

ChdIdle ==
    /\ chd_line = NoneV
    /\ chd_last_pct = 0
    /\ chd_call = NoneV

RestIdle == P2cIdle /\ DescIdle /\ SeqIdle /\ ChdIdle

CoreIdle == NameIdle /\ CatIdle /\ TreeIdle /\ ZisoIdle

NameInit ==
    /\ RestIdle
    /\ nm_path \in NamePaths
    /\ nm_res = NoneV
    /\ CatIdle
    /\ TreeIdle
    /\ ZisoIdle

NameDerive ==
    /\ nm_res = NoneV
    /\ nm_res' = Some(process_game_names(nm_path))
    /\ UNCHANGED << restVars, nm_path, catVars, treeVars, zisoVars >>

NameNext == NameDerive

SpecName == NameInit /\ [][NameNext]_vars

\* The base filename with the extension removed, as the claim names it.
NmGame == Splitext(Basename(nm_path))[1]

\* The name contains a bracketed substring: a '[' with a ']' after it.
HasBracketed(g) == \E i, j \in 1..Len(g) : i < j /\ g[i] = "[" /\ g[j] = "]"

\* The content of the first bracketed substring: it opens at the first '['
\* that some ']' follows and closes at the first ']' after that.
FirstBracketContent(g) ==
    LET i == CHOOSE a \in 1..Len(g) :
                 /\ g[a] = "[" /\ \E c \in (a + 1)..Len(g) : g[c] = "]"
                 /\ \A b \in 1..(a - 1) :
                        ~(g[b] = "[" /\ \E c \in (b + 1)..Len(g) : g[c] = "]")
        j == CHOOSE c \in (i + 1)..Len(g) :
                 g[c] = "]" /\ \A e \in (i + 1)..(c - 1) : g[e] # "]"
    IN  SubSeq(g, i + 1, j - 1)

\* C1 as stated: the canonical code is the content of the first bracketed
\* substring whenever the name has one, and the full base filename otherwise.
C1_AsStated ==
    nm_res # NoneV =>
        nm_res[1].base_name =
            IF HasBracketed(NmGame) THEN FirstBracketContent(NmGame) ELSE NmGame

\* C1 amended: the canonical code is the content of the first bracketed
\* substring when the name has one and that content is not empty; it is the
\* full base filename when there is no bracketed substring or the first one is
\* empty ("[]").
C1_CanonicalCode ==
    nm_res # NoneV =>
        nm_res[1].base_name =
            IF HasBracketed(NmGame) /\ FirstBracketContent(NmGame) # << >>
            THEN FirstBracketContent(NmGame)
            ELSE NmGame

C1_Witness ==
    /\ nm_res # NoneV
    /\ HasBracketed(NmGame)
    /\ nm_res[1].base_name = << "a" >>
    /\ Len(NmGame) = 4

----------------------------------------------------------------------------
(* Catalog specification: process_game, rename_game and delete_game acting *)
(* on one target directory, and the clock the backup names are taken from. *)

MaxOps == 3
MaxTime == 1

\* The jobs offered to process_game (file, cover, logo): a plain name, a name
\* with a code, a name that is only a code, a name sharing that code, a name
\* with '=', and a name with an empty bracket.
GameJobs ==
    { [ file |-> << "d", "/", "a", ".", "i", "s", "o" >>,
        cover |-> NoneV, logo |-> NoneV ],
      [ file |-> << "d", "/", "a", " ", "[", "b", "]", ".", "i", "s", "o" >>,
        cover |-> Some(EXT_PNG), logo |-> NoneV ],
      [ file |-> << "d", "/", "[", "b", "]", ".", "c", "u", "e" >>,
        cover |-> NoneV, logo |-> Some(EXT_JPG) ],
      [ file |-> << "d", "/", "b", ".", "c", "h", "d" >>,
        cover |-> Some(EXT_JPG), logo |-> Some(EXT_PNG) ],
      [ file |-> << "d", "/", "a", "=", "b", ".", "b", "i", "n" >>,
        cover |-> NoneV, logo |-> NoneV ],
      [ file |-> << "d", "/", "a", "[", "]", ".", "i", "s", "o" >>,
        cover |-> NoneV, logo |-> NoneV ] }

\* The names typed into rename_game's dialog.
NewNames == { << "b" >>, << "c" >> }

\* The outcome of the external steps of process_game for a file of a given
\* extension: "no_input" is a failed CHD extraction or a missing .cue/.bin
\* partner, "no_tool" a missing cue2pops.exe, "conv_fail" a failed conversion
\* and "conv_fail_vcd" one that left its output file behind.
Outcomes(ext) ==
    IF ext \in { EXT_CHD, EXT_CUE, EXT_BIN }
    THEN { "ok", "no_input", "no_tool", "conv_fail", "conv_fail_vcd" }
    ELSE { "ok" }

CatInit ==
    /\ RestIdle
    /\ NameIdle
    /\ ZisoIdle
    /\ conf_exists = FALSE
    /\ conf = << >>
    /\ backups = {}
    /\ now = 0
    /\ root_files = {}
    /\ pops_files = {}
    /\ pops_dirs = {}
    /\ art_files = {}
    /\ last = [op |-> "none"]
    /\ nops = 0
    /\ cwd_elf \in BOOLEAN
    /\ TreeIdle

\* One second passes.
Tick ==
    /\ now < MaxTime
    /\ now' = now + 1
    /\ UNCHANGED << restVars, nameVars, treeVars, zisoVars, conf_exists, conf, backups, root_files,
                    pops_files, pops_dirs, art_files, last, nops, cwd_elf >>

\* The same, but with the save folder made before the conversion.
ProcessGameFolderFirst(job, outcome) ==
    LET file_path == job.file
        cover == job.cover
        logo == job.logo
        n == process_game_names(file_path)
    IN
    /\ nops < MaxOps
    /\ outcome \in Outcomes(n.ext)
    /\ nops' = nops + 1
    /\ IF outcome # "ok"
       THEN /\ pops_files' = IF outcome = "conv_fail_vcd"
                             THEN pops_files \cup { n.vcd_name }
                             ELSE pops_files
            /\ last' = [op |-> "process_game", job |-> job, ok |-> FALSE]
            /\ pops_dirs' = pops_dirs \cup { n.save_folder_name }
            /\ UNCHANGED << conf_exists, conf, backups, root_files, art_files >>
       ELSE /\ pops_files' = pops_files \cup { n.vcd_name }
            /\ pops_dirs' = pops_dirs \cup { n.save_folder_name }
            /\ root_files' = IF cwd_elf THEN root_files \cup { n.elf_name }
                             ELSE root_files
            /\ backups' = backup_conf_file(conf_exists, conf, backups, now)
            /\ conf' = update_conf_apps(conf_exists, conf, n.conf_name, n.elf_name)
            /\ conf_exists' = TRUE
            /\ art_files' = art_files
                   \cup (IF cover # NoneV
                         THEN { save_cover(n.elf_name_no_ext, cover[1]) } ELSE {})
                   \cup (IF logo # NoneV
                         THEN { save_logo(n.elf_name_no_ext, logo[1]) } ELSE {})
            /\ last' = [op |-> "process_game", job |-> job, ok |-> TRUE]
    /\ UNCHANGED << restVars, nameVars, treeVars, zisoVars, now, cwd_elf >>

\* process_game(file_path, pops_dir, target_dir, cover_path, logo_path).
\* cwd_elf: POPS.ELF is in the working directory (copy_file copies only then).
ProcessGame(job, outcome) ==
    LET file_path == job.file
        cover == job.cover
        logo == job.logo
        n == process_game_names(file_path)
    IN
    /\ nops < MaxOps
    /\ outcome \in Outcomes(n.ext)
    /\ nops' = nops + 1
    /\ IF outcome # "ok"
       THEN /\ pops_files' = IF outcome = "conv_fail_vcd"
                             THEN pops_files \cup { n.vcd_name }
                             ELSE pops_files
            /\ last' = [op |-> "process_game", job |-> job, ok |-> FALSE]
            /\ UNCHANGED << conf_exists, conf, backups, root_files, pops_dirs,
                            art_files >>
       ELSE /\ pops_files' = pops_files \cup { n.vcd_name }
            /\ pops_dirs' = pops_dirs \cup { n.save_folder_name }
            /\ root_files' = IF cwd_elf THEN root_files \cup { n.elf_name }
                             ELSE root_files
            /\ backups' = backup_conf_file(conf_exists, conf, backups, now)
            /\ conf' = update_conf_apps(conf_exists, conf, n.conf_name, n.elf_name)
            /\ conf_exists' = TRUE
            /\ art_files' = art_files
                   \cup (IF cover # NoneV
                         THEN { save_cover(n.elf_name_no_ext, cover[1]) } ELSE {})
                   \cup (IF logo # NoneV
                         THEN { save_logo(n.elf_name_no_ext, logo[1]) } ELSE {})
            /\ last' = [op |-> "process_game", job |-> job, ok |-> TRUE]
    /\ UNCHANGED << restVars, nameVars, treeVars, zisoVars, now, cwd_elf >>

\* PopsManagerGUI.rename_game(game_key) with new_name typed in the dialog
RenameGame(game_key, new_name) ==
    /\ nops < MaxOps
    /\ game_key \in ShownKeys
    /\ new_name # << >>
    /\ conf_exists
    /\ nops' = nops + 1
    /\ backups' = backup_conf_file(conf_exists, conf, backups, now)
    /\ conf' = rename_lines(conf, game_key, new_name)
    /\ last' = [op |-> "rename_game", key |-> game_key, new_name |-> new_name]
    /\ UNCHANGED << restVars, nameVars, treeVars, zisoVars, conf_exists, now, root_files, pops_files,
                    pops_dirs, art_files, cwd_elf >>

\* PopsManagerGUI.delete_game(game_key), confirmed in the dialog
DeleteGame(game_key) ==
    LET elf == get_elf_name_from_game_key(conf_exists, conf, game_key) IN
    /\ nops < MaxOps
    /\ game_key \in ShownKeys
    /\ Truthy(elf)
    /\ nops' = nops + 1
    /\ backups' = backup_conf_file(conf_exists, conf, backups, now)
    /\ pops_dirs' = pops_dirs \ { elf[1] }
    /\ root_files' = root_files \ { XX_PREFIX \o elf[1] \o ELF_SUFFIX }
    /\ pops_files' = pops_files \ { elf[1] \o ext : ext \in DiscExts }
    /\ art_files' = art_files \ ({ save_cover(elf[1], ext) : ext \in ArtExts }
                                 \cup { save_logo(elf[1], ext) : ext \in ArtExts })
    /\ conf' = IF conf_exists THEN delete_lines(conf, game_key) ELSE conf
    /\ last' = [op |-> "delete_game", key |-> game_key, code |-> elf[1]]
    /\ UNCHANGED << restVars, nameVars, treeVars, zisoVars, conf_exists, now, cwd_elf >>

CatNext ==
    \/ Tick
    \/ \E j \in GameJobs :
          \E o \in Outcomes(process_game_names(j.file).ext) :
              ProcessGame(j, o)
    \/ \E k \in ShownKeys, nn \in NewNames : RenameGame(k, nn)
    \/ \E k \in ShownKeys : DeleteGame(k)

Spec == CatInit /\ [][CatNext]_vars

----------------------------------------------------------------------------
(* Claims on the catalog.                                                  *)

\* The base filename of a path with its extension removed.
GameOf(file_path) == Splitext(Basename(file_path))[1]

\* The canonical code of a base filename: the non-empty content of its first
\* bracketed substring, else the whole name.
CanonicalCode(g) ==
    IF HasBracketed(g) /\ FirstBracketContent(g) # << >>
    THEN FirstBracketContent(g)
    ELSE g

\* A base filename with its first bracketed substring cut out.
CutFirstBracketed(g) ==
    LET i == CHOOSE a \in 1..Len(g) :
                 /\ g[a] = "[" /\ \E c \in (a + 1)..Len(g) : g[c] = "]"
                 /\ \A b \in 1..(a - 1) :
                        ~(g[b] = "[" /\ \E c \in (b + 1)..Len(g) : g[c] = "]")
        j == CHOOSE c \in (i + 1)..Len(g) :
                 g[c] = "]" /\ \A e \in (i + 1)..(c - 1) : g[e] # "]"
    IN  SubSeq(g, 1, i - 1) \o SubSeq(g, j + 1, Len(g))

RECURSIVE CutAllBracketed(_)
CutAllBracketed(g) ==
    IF HasBracketed(g) THEN CutAllBracketed(CutFirstBracketed(g)) ELSE g

\* The display name of a base filename: every bracketed substring cut out,
\* then the blanks at both ends dropped.
DisplayName(g) ==
    LET t == CutAllBracketed(g)
        keep == { i \in 1..Len(t) : t[i] # " " }
    IN  IF keep = {} THEN << >>
        ELSE SubSeq(t, CHOOSE i \in keep : \A k \in keep : i <= k,
                       CHOOSE i \in keep : \A k \in keep : k <= i)

\* The text s ends with the text p.
EndsWith(s, p) ==
    Len(p) <= Len(s) /\ SubSeq(s, Len(s) - Len(p) + 1, Len(s)) = p

LinesOf(exists, lines) == IF exists THEN lines ELSE << >>

\* The step is a call of process_game that returned True.
ProcessedOk == nops' = nops + 1 /\ last'.op = "process_game" /\ last'.ok

LastProcessedOk == last.op = "process_game" /\ last.ok

C3_AssetsNamedFromCode ==
    [][ ProcessedOk =>
          LET job == last'.job
              code == CanonicalCode(GameOf(job.file))
              elf == XX_PREFIX \o code \o ELF_SUFFIX
              cov == IF job.cover = NoneV THEN {}
                     ELSE { XX_PREFIX \o code \o COV_TAG \o job.cover[1] }
              lgo == IF job.logo = NoneV THEN {}
                     ELSE { XX_PREFIX \o code \o LGO_TAG \o job.logo[1] }
          IN  /\ pops_files' = pops_files \cup { code \o VCD_SUFFIX }
              /\ pops_dirs' = pops_dirs \cup { code }
              /\ root_files' = root_files \cup (IF cwd_elf THEN { elf } ELSE {})
              /\ art_files' = art_files \cup cov \cup lgo
              /\ \E i \in 1..Len(conf') :
                     /\ EndsWith(conf'[i], EQ \o MASS_PREFIX \o elf)
                     /\ (i > Len(LinesOf(conf_exists, conf)) \/ conf'[i] # conf[i]
                         \/ conf' = conf)
      ]_vars

C3_Witness ==
    /\ LastProcessedOk
    /\ last.job.cover # NoneV /\ last.job.logo # NoneV
    /\ cwd_elf
    /\ (XX_PREFIX \o << "b" >> \o COV_TAG \o EXT_JPG) \in art_files
    /\ (XX_PREFIX \o << "b" >> \o LGO_TAG \o EXT_PNG) \in art_files
    /\ (XX_PREFIX \o << "b" >> \o ELF_SUFFIX) \in root_files
    /\ (<< "b" >> \o VCD_SUFFIX) \in pops_files
    /\ << "b" >> \in pops_dirs

JobKeys == { process_game_names(j.file).conf_name : j \in GameJobs }

\* C5: the ledger is last-write-wins per key: right after update_conf_apps
\* writes a key, looking that key up yields the name just written, and the
\* lookup of every other key is what it was before.
C5_LastWriteWins ==
    [][ ProcessedOk =>
          LET n == process_game_names(last'.job.file) IN
          /\ get_elf_name_from_game_key(conf_exists', conf', n.conf_name)
                 = Some(n.elf_name_no_ext)
          /\ \A k \in JobKeys \ { n.conf_name } :
                 get_elf_name_from_game_key(conf_exists', conf', k)
                     = get_elf_name_from_game_key(conf_exists, conf, k)
      ]_vars

\* The step rewrites conf_apps.cfg.
RewritesLedger ==
    /\ nops' = nops + 1
    /\ \/ last'.op = "process_game" /\ last'.ok
       \/ last'.op = "rename_game"
       \/ last'.op = "delete_game"

\* C6: when update_conf_apps, rename_game or delete_game rewrites an existing
\* ledger, the backup file named after the current second holds the content
\* the ledger had before the rewrite.
C6_BackupBeforeMutation ==
    [][ (RewritesLedger /\ conf_exists) =>
          [ts |-> now, content |-> conf] \in backups'
      ]_vars

\* A rename has changed the ledger and the backup of this second holds the
\* content from before it.
C6_Witness ==
    /\ last.op = "rename_game"
    /\ \E b \in backups : b.ts = now /\ b.content # conf
                          /\ Len(b.content) = Len(conf)

\* C16: after process_game succeeds for a file, looking up the display name
\* of that file in the ledger yields the canonical code of the file.
C16_RoundTrip ==
    LastProcessedOk =>
        LET g == GameOf(last.job.file) IN
        get_elf_name_from_game_key(conf_exists, conf, DisplayName(g))
            = Some(CanonicalCode(g))

\* The key of a ledger line: the text before its first '='.
KeyOfLine(line) == SubSeq(line, 1, Find(line, "=", 1) - 1)

\* C17: the ledger holds at most one line per key.
C17_KeysUnique ==
    \A i, j \in 1..Len(conf) :
        KeyOfLine(conf[i]) = KeyOfLine(conf[j]) => i = j

\* The ledger lines point to the launcher of the code.
PointsTo(lines, code) ==
    \E i \in 1..Len(lines) :
        EndsWith(lines[i], EQ \o MASS_PREFIX \o XX_PREFIX \o code \o ELF_SUFFIX)

\* C18: when process_game has succeeded for a file and then succeeds for a
\* file with another canonical code, the ledger holds an entry pointing to
\* XX.<code>.ELF for each of the two codes.
C18_BothEntriesKept ==
    [][ (LastProcessedOk /\ ProcessedOk) =>
          LET c1 == CanonicalCode(GameOf(last.job.file))
              c2 == CanonicalCode(GameOf(last'.job.file))
          IN  c1 # c2 => (PointsTo(conf', c1) /\ PointsTo(conf', c2))
      ]_vars

\* The step is a call of delete_game that went through.
Deleted == nops' = nops + 1 /\ last'.op = "delete_game"

\* C19: delete_game removes no launcher, disc image, save folder or artwork
\* that an entry left in the ledger resolves to.
C19_DeleteIsolated ==
    [][ Deleted =>
          \A i \in 1..Len(conf') :
              LET code == ElfNameOfLine(conf'[i]) IN
              /\ \A f \in root_files \ root_files' :
                     f # XX_PREFIX \o code \o ELF_SUFFIX
              /\ \A f \in pops_files \ pops_files' :
                     \A ext \in DiscExts : f # code \o ext
              /\ \A d \in pops_dirs \ pops_dirs' : d # code
              /\ \A f \in art_files \ art_files' :
                     \A ext \in ArtExts :
                         /\ f # XX_PREFIX \o code \o COV_TAG \o ext
                         /\ f # XX_PREFIX \o code \o LGO_TAG \o ext
      ]_vars

\* C20: each rewrite of an existing ledger adds a backup file of its own,
\* holding the ledger from before the rewrite, and every backup file there
\* was is still there with its content.
C20_BackupsKept ==
    [][ (RewritesLedger /\ conf_exists) =>
          /\ backups \subseteq backups'
          /\ \E b \in backups' \ backups : b.content = conf
      ]_vars

\* The canonical codes of the files offered to process_game.
JobCodes == { CanonicalCode(GameOf(j.file)) : j \in GameJobs }

\* No launcher, disc image, save folder or artwork of the code is left.
NothingLeftOf(code, rf, pf, pd, af) ==
    /\ (XX_PREFIX \o code \o ELF_SUFFIX) \notin rf
    /\ \A ext \in DiscExts : (code \o ext) \notin pf
    /\ code \notin pd
    /\ \A ext \in ArtExts :
           /\ (XX_PREFIX \o code \o COV_TAG \o ext) \notin af
           /\ (XX_PREFIX \o code \o LGO_TAG \o ext) \notin af

\* The line is the entry of the key: the key, '=' and a mass:/ path, as
\* update_conf_apps writes it.
IsEntryOf(line, key) == StartsWith(line, key \o EQ \o MASS_PREFIX)

\* C21: delete_game(key) leaves no ledger entry of that key, keeps every
\* other line as it was and in its place among the others, and leaves no
\* launcher, disc image, save folder or artwork of a game the ledger had
\* under that key.
C21_DeleteComplete ==
    [][ Deleted =>
          LET key == last'.key IN
          /\ \A i \in 1..Len(conf') : ~IsEntryOf(conf'[i], key)
          /\ conf' = SelectSeq(conf, LAMBDA l : ~IsEntryOf(l, key))
          /\ \A code \in JobCodes :
                 (\E i \in 1..Len(conf) :
                      conf[i] = key \o EQ \o MASS_PREFIX
                                \o XX_PREFIX \o code \o ELF_SUFFIX)
                 => NothingLeftOf(code, root_files', pops_files', pops_dirs',
                                  art_files')
      ]_vars

\* The step is a call of process_game that returned False.
ProcessedFailed == nops' = nops + 1 /\ last'.op = "process_game" /\ ~last'.ok

\* C22: a call of process_game that returns False leaves the ledger, the
\* backup folder, the launchers in the target directory, the ART folder and
\* the save folders as they were.
C22_FailureTouchesNothing ==
    [][ ProcessedFailed =>
          /\ conf_exists' = conf_exists
          /\ conf' = conf
          /\ backups' = backups
          /\ root_files' = root_files
          /\ art_files' = art_files
          /\ pops_dirs' = pops_dirs
      ]_vars

\* A conversion has failed with games installed, leaving its output file in
\* POPS and no save folder for it.
C22_Witness ==
    /\ last.op = "process_game" /\ ~last.ok
    /\ conf_exists /\ Len(conf) = 1
    /\ << "a" >> \in pops_dirs
    /\ (<< "b" >> \o VCD_SUFFIX) \in pops_files
    /\ << "b" >> \notin pops_dirs

----------------------------------------------------------------------------
(* Directory trees.  A tree is a function from the paths that exist (each  *)
(* a sequence of names, << >> the root directory) to a node; a node is a   *)
(* directory or a file with its bytes.  copy_tree and install_usb_files    *)
(* join the same item names onto source and destination, so one relative   *)
(* path names both sides.                                                  *)

MaxNodes == 5

TreeNames == { "x", "y" }

\* File contents: empty, and two different contents of one size.
Contents == { << >>, << 1 >>, << 2 >> }

\* os.path.getsize of a directory: whatever the file system reports.
DirSizes == { 0, 4096 }

DirNode == [kind |-> "dir", data |-> << >>]
FileNode(bytes) == [kind |-> "file", data |-> bytes]
NodeKinds == { DirNode } \cup { FileNode(c) : c \in Contents }

RootOnly == (<< >> :> DirNode)
NoTree == << >>

Exists(t, p) == p \in DOMAIN t
IsDir(t, p) == p \in DOMAIN t /\ t[p].kind = "dir"
IsFile(t, p) == p \in DOMAIN t /\ t[p].kind = "file"

\* os.listdir
Children(t, p) == { n \in TreeNames : (p \o << n >>) \in DOMAIN t }

IsPrefix(p, q) == Len(p) <= Len(q) /\ SubSeq(q, 1, Len(p)) = p

\* The paths of t at or below p.
Under(t, p) == { q \in DOMAIN t : IsPrefix(p, q) }

PutNode(t, p, node) == [q \in DOMAIN t \cup { p } |-> IF q = p THEN node ELSE t[q]]

\* os.makedirs: p and every missing ancestor become directories
MakeDirs(t, p) ==
    [q \in DOMAIN t \cup { SubSeq(p, 1, k) : k \in 0..Len(p) } |->
        IF q \in DOMAIN t THEN t[q] ELSE DirNode]

\* shutil.copytree(s, d) for a destination that does not exist: the whole
\* subtree of s appears at d, under directories made as makedirs makes them
CopySubtree(src, dst, p) ==
    LET made == MakeDirs(dst, p)
    IN  [q \in DOMAIN made \cup Under(src, p) |->
            IF q \in Under(src, p) THEN src[q] ELSE made[q]]

FilesUnder(t, p) == { q \in Under(t, p) : t[q].kind = "file" }

\* The trees that have one node more than t.
Extensions(t) ==
    UNION { { PutNode(t, par \o << nm >>, node) :
                nm \in { m \in TreeNames : (par \o << m >>) \notin DOMAIN t },
                node \in NodeKinds } :
            par \in { q \in DOMAIN t : t[q].kind = "dir" } }

\* The trees of n nodes besides the root.
RECURSIVE TreesOf(_)
TreesOf(n) ==
    IF n = 0 THEN { RootOnly }
    ELSE UNION { Extensions(t) : t \in TreesOf(n - 1) }

NodeCount(t) == IF t = NoTree THEN 0 ELSE Cardinality(DOMAIN t) - 1

AllTrees == UNION { TreesOf(n) : n \in 0..MaxNodes }

Parent(p) == SubSeq(p, 1, Len(p) - 1)
LastName(p) == p[Len(p)]

----------------------------------------------------------------------------
(* copy_tree and install_usb_files, one item of one directory per step.    *)

\* The callback copy_tree is given: the caller's log_callback ("none" when it
\* is None, "log" for a function taking (message, level)), or, from
\* install_usb_files, the one-argument lambda around it.
CtCallback ==
    IF t_op = "install_usb_files"
    THEN (IF t_cb = "none" THEN "lambda_none" ELSE "lambda_log")
    ELSE t_cb

\* `if log_callback: log_callback(msg)` raises
Log1Raises(cb) == cb = "lambda_none"

\* `if log_callback: log_callback(msg, "info")` raises
Log2Raises(cb) == cb \in { "lambda_none", "lambda_log" }

Raised(dst) == [res |-> "raise", dst |-> dst, wrote |-> {}]

\* shutil.copy2(s, d): into the directory d when d is one, else onto d
Copy2(dst, src, s) ==
    IF IsDir(dst, s)
    THEN LET target == s \o << LastName(s) >>
         IN  IF IsDir(dst, target) THEN Raised(dst)
             ELSE [res |-> "copied", dst |-> PutNode(dst, target, src[s]),
                   wrote |-> { target }]
    ELSE IF ~IsDir(dst, Parent(s)) THEN Raised(dst)
    ELSE [res |-> "copied", dst |-> PutNode(dst, s, src[s]), wrote |-> { s }]

\* copy_tree, lines 58-66: the source item s is a file
FileItem(dst, src, s, dsz, cb) ==
    IF Exists(dst, s)
       /\ Len(src[s].data) = (IF IsFile(dst, s) THEN Len(dst[s].data) ELSE dsz)
    THEN IF IsDir(dst, s) THEN Raised(dst)
         ELSE IF src[s].data = dst[s].data
              THEN IF Log2Raises(cb) THEN Raised(dst)
                   ELSE [res |-> "skip", dst |-> dst, wrote |-> {}]
              ELSE Copy2(dst, src, s)
    ELSE Copy2(dst, src, s)

\* copy_tree, lines 52-57: the source item s is a directory
DirItem(dst, src, s) ==
    IF Exists(dst, s) THEN [res |-> "recurse", dst |-> dst, wrote |-> {}]
    ELSE IF IsFile(dst, Parent(s)) THEN Raised(dst)
    ELSE [res |-> "copied", dst |-> CopySubtree(src, dst, s),
          wrote |-> FilesUnder(src, s)]

Frame(kind, path, todo) == [kind |-> kind, path |-> path, todo |-> todo]

Top == t_stack[Len(t_stack)]

\* The stack with item taken off the list of its top frame.
Taken(item) ==
    [t_stack EXCEPT ![Len(t_stack)].todo = @ \ { item }]

\* The copy_tree call on top of stack st returns ret ("true" or "false") or
\* raises ("raised") out of its own handler: the caller resumes.  A calling
\* copy_tree ignores the value and passes an exception on through its own
\* handler; install_usb_files counts the item.
RECURSIVE Resume(_, _, _, _)
Resume(st, ret, calls, r) ==
    LET rest == SubSeq(st, 1, Len(st) - 1)
        done == calls \cup { [path |-> st[Len(st)].path, ret |-> ret] }
    IN  IF rest = << >>
        THEN [stack |-> rest, calls |-> done,
              ret |-> [r EXCEPT !.done = TRUE, !.value = (ret = "true")]]
        ELSE IF rest[Len(rest)].kind = "usb"
        THEN [stack |-> rest, calls |-> done,
              ret |-> IF ret = "raised"
                      THEN [r EXCEPT !.failed = @ + 1]
                      ELSE [r EXCEPT !.success = @ + 1]]
        ELSE IF ret = "raised" THEN Resume(rest, "raised", done, r)
        ELSE [stack |-> rest, calls |-> done, ret |-> r]

\* What a copy_tree frame does with an exception: its handler logs, then it
\* returns False, unless the log call raises too.
Caught(cb) == IF Log1Raises(cb) THEN "raised" ELSE "false"

NewRet == [done |-> FALSE, value |-> FALSE, success |-> 0, failed |-> 0, skipped |-> 0]

TreeInit ==
    /\ RestIdle
    /\ NameIdle
    /\ ZisoIdle
    /\ CatIdle
    /\ t_src \in AllTrees
    /\ t_dst \in AllTrees \cup { NoTree }
    /\ NodeCount(t_src) + NodeCount(t_dst) <= MaxNodes
    /\ t_dst0 = t_dst
    /\ t_op \in { "copy_tree", "install_usb_files" }
    /\ t_cb \in { "none", "log" }
    /\ t_phase = "ready"
    /\ t_stack = << >>
    /\ t_writes = {}
    /\ t_calls = {}
    /\ t_ret = NewRet

\* copy_tree(src, dst, log_callback), lines 44-47
CtStart ==
    /\ t_phase = "ready" /\ t_op = "copy_tree"
    /\ t_dst' = IF t_dst = NoTree THEN RootOnly ELSE t_dst
    /\ t_stack' = << Frame("ct", << >>, Children(t_src, << >>)) >>
    /\ t_phase' = "run"
    /\ UNCHANGED << restVars, nameVars, catVars, zisoVars, t_src, t_dst0, t_op, t_cb, t_writes,
                    t_calls, t_ret >>

\* copy_tree, lines 49-66: one item of the directory being copied
CtItem(item, dsz) ==
    /\ t_phase = "run" /\ t_stack # << >> /\ Top.kind = "ct"
    /\ item \in Top.todo
    /\ LET s == Top.path \o << item >>
           o == IF IsDir(t_src, s) THEN DirItem(t_dst, t_src, s)
                ELSE FileItem(t_dst, t_src, s, dsz, CtCallback)
       IN  /\ t_dst' = o.dst
           /\ t_writes' = t_writes \cup o.wrote
           /\ IF o.res = "recurse"
              THEN /\ t_stack' = Append(Taken(item),
                                        Frame("ct", s, Children(t_src, s)))
                   /\ UNCHANGED << t_calls, t_ret >>
              ELSE IF o.res = "raise"
              THEN LET k == Resume(t_stack, Caught(CtCallback), t_calls, t_ret)
                   IN  /\ t_stack' = k.stack
                       /\ t_calls' = k.calls
                       /\ t_ret' = k.ret
              ELSE /\ t_stack' = Taken(item)
                   /\ UNCHANGED << t_calls, t_ret >>
    /\ t_phase' = IF t_stack' = << >> THEN "done" ELSE "run"
    /\ UNCHANGED << restVars, nameVars, catVars, zisoVars, t_src, t_dst0, t_op, t_cb >>

\* copy_tree, lines 67-68: the loop is over, the call logs and returns True
CtReturn ==
    /\ t_phase = "run" /\ t_stack # << >> /\ Top.kind = "ct"
    /\ Top.todo = {}
    /\ LET k == Resume(t_stack,
                       IF Log1Raises(CtCallback) THEN "raised" ELSE "true",
                       t_calls, t_ret)
       IN  /\ t_stack' = k.stack
           /\ t_calls' = k.calls
           /\ t_ret' = k.ret
    /\ t_phase' = IF t_stack' = << >> THEN "done" ELSE "run"
    /\ UNCHANGED << restVars, nameVars, catVars, zisoVars, t_src, t_dst, t_dst0, t_op, t_cb, t_writes >>

\* install_usb_files(destination_dir, log_callback), lines 747-764
UsbStart ==
    /\ t_phase = "ready" /\ t_op = "install_usb_files"
    /\ IF Children(t_src, << >>) = {}
       THEN /\ t_phase' = "done"
            /\ t_ret' = [t_ret EXCEPT !.done = TRUE, !.value = FALSE]
            /\ UNCHANGED t_stack
       ELSE /\ t_phase' = "run"
            /\ t_stack' = << Frame("usb", << >>, Children(t_src, << >>)) >>
            /\ UNCHANGED t_ret
    /\ UNCHANGED << restVars, nameVars, catVars, zisoVars, t_src, t_dst, t_dst0, t_op, t_cb, t_writes,
                    t_calls >>

\* install_usb_files, lines 766-806: the top-level item s is a file
UsbFileItem(dst, src, s, dsz) ==
    IF Exists(dst, s)
    THEN IF Len(src[s].data) = (IF IsFile(dst, s) THEN Len(dst[s].data) ELSE dsz)
         THEN IF IsDir(dst, s) THEN Raised(dst)
              ELSE IF src[s].data = dst[s].data
                   THEN [res |-> "skip", dst |-> dst, wrote |-> {}]
                   ELSE Copy2(dst, src, s)
         ELSE Copy2(dst, src, s)
    ELSE Copy2(dst, src, s)

\* install_usb_files, lines 766-806: one item of usb_install
UsbItem(item, dsz) ==
    /\ t_phase = "run" /\ t_stack # << >> /\ Top.kind = "usb"
    /\ item \in Top.todo
    /\ LET s == << item >>
           o == IF IsDir(t_src, s) THEN DirItem(t_dst, t_src, s)
                ELSE UsbFileItem(t_dst, t_src, s, dsz)
       IN  /\ t_dst' = o.dst
           /\ t_writes' = t_writes \cup o.wrote
           /\ t_stack' = IF o.res = "recurse"
                         THEN Append(Taken(item), Frame("ct", s, Children(t_src, s)))
                         ELSE Taken(item)
           /\ t_ret' = CASE o.res = "recurse" -> t_ret
                         [] o.res = "raise" -> [t_ret EXCEPT !.failed = @ + 1]
                         [] o.res = "skip" -> [t_ret EXCEPT !.skipped = @ + 1]
                         [] OTHER -> [t_ret EXCEPT !.success = @ + 1]
    /\ UNCHANGED << restVars, nameVars, catVars, zisoVars, t_src, t_dst0, t_op, t_cb, t_phase, t_calls >>

\* install_usb_files, lines 808-815
UsbReturn ==
    /\ t_phase = "run" /\ t_stack # << >> /\ Top.kind = "usb"
    /\ Top.todo = {}
    /\ t_stack' = << >>
    /\ t_phase' = "done"
    /\ t_ret' = [t_ret EXCEPT !.done = TRUE, !.value = (t_ret.success > 0)]
    /\ UNCHANGED << restVars, nameVars, catVars, zisoVars, t_src, t_dst, t_dst0, t_op, t_cb, t_writes,
                    t_calls >>

\* copy_tree(src, dst, log_callback) called again after it returned True,
\* with the source as it was and the destination as the first call left it.
\* t_dst0, t_writes, t_calls and t_ret are from now on those of this call.
CtAgain ==
    /\ t_phase = "done" /\ t_op = "copy_tree"
    /\ t_ret.value
    /\ t_op' = "copy_tree_again"
    /\ t_dst0' = t_dst
    /\ t_stack' = << Frame("ct", << >>, Children(t_src, << >>)) >>
    /\ t_phase' = "run"
    /\ t_writes' = {}
    /\ t_calls' = {}
    /\ t_ret' = NewRet
    /\ UNCHANGED << restVars, nameVars, catVars, zisoVars, t_src, t_dst, t_cb >>

TreeNext ==
    \/ CtStart
    \/ CtAgain
    \/ \E item \in TreeNames, dsz \in DirSizes : CtItem(item, dsz)
    \/ CtReturn
    \/ UsbStart
    \/ \E item \in TreeNames, dsz \in DirSizes : UsbItem(item, dsz)
    \/ UsbReturn

SpecTree == TreeInit /\ [][TreeNext]_vars

----------------------------------------------------------------------------
(* Claims on copy_tree and install_usb_files.                              *)

Finished == t_phase = "done"

SrcFiles == { s \in DOMAIN t_src : t_src[s].kind = "file" }

\* The source directories copy_tree is called on from outside itself: the
\* whole source, or the top-level directories install_usb_files merges.
CopyTreeRoots ==
    IF t_op # "install_usb_files" THEN { << >> }
    ELSE { << n >> : n \in { m \in TreeNames :
                               IsDir(t_src, << m >>) /\ Exists(t_dst0, << m >>) } }

MergedFiles == { s \in SrcFiles : \E r \in CopyTreeRoots : IsPrefix(r, s) }

SameFile(t, s) == IsFile(t, s) /\ t[s].data = t_src[s].data

\* C7: once the copy is over, of the source files handed to copy_tree, one
\* whose destination file had the same bytes was not written, one whose
\* destination file differed has the source's bytes at the destination, and
\* one that had no destination counterpart is at the destination.
C7_MergeRule ==
    Finished =>
        \A s \in MergedFiles :
            /\ SameFile(t_dst0, s) => s \notin t_writes
            /\ (IsFile(t_dst0, s) /\ ~SameFile(t_dst0, s)) => SameFile(t_dst, s)
            /\ ~Exists(t_dst0, s) => SameFile(t_dst, s)

\* C8: once copy_tree has returned, every file and directory that was at
\* the destination and not in the source is still there, unchanged.
C8_DestinationOnlyKept ==
    (Finished /\ t_op = "copy_tree") =>
        \A q \in DOMAIN t_dst0 :
            q \notin DOMAIN t_src => (q \in DOMAIN t_dst /\ t_dst[q] = t_dst0[q])

\* C9: once install_usb_files has returned with no failed item counted, every
\* file of usb_install, at every depth, is at the destination with the same
\* bytes.
C9_WholeStructureCopied ==
    (Finished /\ t_op = "install_usb_files" /\ t_ret.failed = 0) =>
        \A s \in SrcFiles : SameFile(t_dst, s)

\* C23: a second copy_tree(src, dst), run right after one that returned True
\* and with the source unchanged, writes no file at the destination and
\* leaves the destination as the first run left it.
C23_SecondRunWritesNothing ==
    t_op = "copy_tree_again" => (t_writes = {} /\ t_dst = t_dst0)

----------------------------------------------------------------------------
(* convert_iso_to_zso and convert_zso_to_iso.  The two functions are the   *)
(* same code with ISO and ZSO exchanged; the names below are those of       *)
(* convert_iso_to_zso, and for convert_zso_to_iso read zso for iso.         *)

\* Disc images told apart by a number; a file holds an image in a format.
Images == { 1, 2 }
File(fmt, img) == [fmt |-> fmt, img |-> img]

\* A file that was there before the call, not made from the input.
Stale(fmt) == File(fmt, 0)

InFmt(fn) == IF fn = "convert_iso_to_zso" THEN "iso" ELSE "zso"
OutFmt(fn) == IF fn = "convert_iso_to_zso" THEN "zso" ELSE "iso"

\* what ziso.exe writes for the input c
Converted(fn, c) == File(OutFmt(fn), c.img)

ZisoInit ==
    /\ RestIdle
    /\ NameIdle
    /\ CatIdle
    /\ TreeIdle
    /\ z_fn \in { "convert_iso_to_zso", "convert_zso_to_iso" }
    /\ z_exe \in BOOLEAN
    /\ \E input \in { NoneV } \cup { Some(File(InFmt(z_fn), i)) : i \in Images },
          iso_dir \in { "absent", "empty", "other", "same_name", "both" },
          zso_dir \in { "absent", "empty", "other", "same_name", "both" },
          out \in { NoneV, Some(Stale(OutFmt(z_fn))) } :
          /\ z_fs = [iso_path |-> input,
                     iso_temp_dir |-> iso_dir # "absent",
                     zso_temp_dir |-> zso_dir # "absent",
                     temp_iso_path |-> IF iso_dir \in { "same_name", "both" }
                                       THEN Some(Stale(InFmt(z_fn))) ELSE NoneV,
                     temp_ziso_exe |-> FALSE,
                     temp_zso_path |-> IF zso_dir \in { "same_name", "both" }
                                       THEN Some(Stale(OutFmt(z_fn))) ELSE NoneV,
                     iso_dir_other |-> iso_dir \in { "other", "both" },
                     zso_dir_other |-> zso_dir \in { "other", "both" },
                     output_zso |-> out]
          /\ z_in0 = input
    /\ z_pc = "start"
    /\ z_ret = NoneV

\* lines 359-377: the two checks, then the temporary directories
ZisoStart ==
    /\ z_pc = "start"
    /\ IF ~z_exe \/ z_fs.iso_path = NoneV
       THEN /\ z_pc' = "done"
            /\ z_ret' = Some(FALSE)
            /\ UNCHANGED z_fs
       ELSE /\ z_pc' = "move_in"
            /\ z_fs' = [z_fs EXCEPT !.iso_temp_dir = TRUE, !.zso_temp_dir = TRUE]
            /\ UNCHANGED z_ret
    /\ UNCHANGED << restVars, nameVars, catVars, treeVars, z_fn, z_exe, z_in0 >>

\* lines 379-380: shutil.move(iso_path, temp_iso_path)
ZisoMoveIn(raises) ==
    /\ z_pc = "move_in"
    /\ IF raises
       THEN z_pc' = "handler" /\ UNCHANGED z_fs
       ELSE /\ z_pc' = "copy_exe"
            /\ z_fs' = [z_fs EXCEPT !.temp_iso_path = z_fs.iso_path,
                                    !.iso_path = NoneV]
    /\ UNCHANGED << restVars, nameVars, catVars, treeVars, z_fn, z_exe, z_in0, z_ret >>

\* lines 381-382: shutil.copy2(ziso_exe, temp_ziso_exe)
ZisoCopyExe(raises) ==
    /\ z_pc = "copy_exe"
    /\ IF raises
       THEN z_pc' = "handler" /\ UNCHANGED z_fs
       ELSE /\ z_pc' = "run"
            /\ z_fs' = [z_fs EXCEPT !.temp_ziso_exe = TRUE]
    /\ UNCHANGED << restVars, nameVars, catVars, treeVars, z_fn, z_exe, z_in0, z_ret >>

RunOutcomes == { "ok", "fail_rc", "no_output", "raise" }

\* lines 383-398: subprocess.run, then the two checks on its result
ZisoRun(outcome) ==
    /\ z_pc = "run"
    /\ CASE outcome = "raise" ->
              /\ z_pc' = "handler"
              /\ UNCHANGED << z_fs, z_ret >>
         [] outcome = "fail_rc" ->
              /\ z_pc' = "done"
              /\ z_ret' = Some(FALSE)
              /\ UNCHANGED z_fs
         [] outcome = "no_output" ->
              /\ UNCHANGED z_fs
              /\ IF z_fs.temp_zso_path = NoneV
                 THEN z_pc' = "done" /\ z_ret' = Some(FALSE)
                 ELSE z_pc' = "move_out" /\ UNCHANGED z_ret
         [] OTHER ->
              /\ z_fs' = [z_fs EXCEPT !.temp_zso_path =
                              Some(Converted(z_fn, z_fs.temp_iso_path[1]))]
              /\ z_pc' = "move_out"
              /\ UNCHANGED z_ret
    /\ UNCHANGED << restVars, nameVars, catVars, treeVars, z_fn, z_exe, z_in0 >>

\* lines 399-400: shutil.move(temp_zso_path, output_zso)
ZisoMoveOut(raises) ==
    /\ z_pc = "move_out"
    /\ IF raises
       THEN z_pc' = "handler" /\ UNCHANGED z_fs
       ELSE /\ z_pc' = "restore"
            /\ z_fs' = [z_fs EXCEPT !.output_zso = z_fs.temp_zso_path,
                                    !.temp_zso_path = NoneV]
    /\ UNCHANGED << restVars, nameVars, catVars, treeVars, z_fn, z_exe, z_in0, z_ret >>

\* lines 401-402: shutil.move(temp_iso_path, iso_path)
ZisoRestore(raises) ==
    /\ z_pc = "restore"
    /\ IF raises
       THEN z_pc' = "handler" /\ UNCHANGED z_fs
       ELSE /\ z_pc' = "cleanup"
            /\ z_fs' = [z_fs EXCEPT !.iso_path = z_fs.temp_iso_path,
                                    !.temp_iso_path = NoneV]
    /\ UNCHANGED << restVars, nameVars, catVars, treeVars, z_fn, z_exe, z_in0, z_ret >>

\* lines 403-408: the copied tool goes, then each directory that is empty
ZisoCleanup ==
    /\ z_pc = "cleanup"
    /\ z_fs' = [z_fs EXCEPT
                  !.temp_ziso_exe = FALSE,
                  !.iso_temp_dir = ~(z_fs.temp_iso_path = NoneV /\ ~z_fs.iso_dir_other),
                  !.zso_temp_dir = ~(z_fs.temp_zso_path = NoneV /\ ~z_fs.zso_dir_other)]
    /\ z_pc' = "done"
    /\ z_ret' = Some(TRUE)
    /\ UNCHANGED << restVars, nameVars, catVars, treeVars, z_fn, z_exe, z_in0 >>

\* lines 409-422: the exception handler; its own move may fail and is passed
\* over, then both directories go with all they hold
ZisoHandler(move_fails) ==
    /\ z_pc = "handler"
    /\ LET back == z_fs.temp_iso_path # NoneV /\ z_fs.iso_path = NoneV /\ ~move_fails
       IN  z_fs' = [z_fs EXCEPT
                      !.iso_path = IF back THEN z_fs.temp_iso_path ELSE @,
                      !.temp_iso_path = NoneV,
                      !.temp_ziso_exe = FALSE,
                      !.temp_zso_path = NoneV,
                      !.iso_dir_other = FALSE,
                      !.zso_dir_other = FALSE,
                      !.iso_temp_dir = FALSE,
                      !.zso_temp_dir = FALSE]
    /\ z_pc' = "done"
    /\ z_ret' = Some(FALSE)
    /\ UNCHANGED << restVars, nameVars, catVars, treeVars, z_fn, z_exe, z_in0 >>

ZisoNext ==
    \/ ZisoStart
    \/ \E raises \in BOOLEAN : ZisoMoveIn(raises)
    \/ \E raises \in BOOLEAN : ZisoCopyExe(raises)
    \/ \E outcome \in RunOutcomes : ZisoRun(outcome)
    \/ \E raises \in BOOLEAN : ZisoMoveOut(raises)
    \/ \E raises \in BOOLEAN : ZisoRestore(raises)
    \/ ZisoCleanup
    \/ \E move_fails \in BOOLEAN : ZisoHandler(move_fails)

SpecZiso == ZisoInit /\ [][ZisoNext]_vars

\* C10: once either function has returned, True or False, from a call on an
\* input file that existed, that file is at its original path again with its
\* original content.
C10_InputRestored ==
    (z_pc = "done" /\ z_in0 # NoneV) => z_fs.iso_path = z_in0

\* Something the call put at a temporary path, not a file that was there
\* before it.
PutByCall(opt) == opt # NoneV /\ opt[1].img # 0

\* C11: once either function has returned, True or False, the directories
\* ISO and ZSO hold nothing the call put there: not the moved input, not the
\* copied ziso.exe, not the produced output.
C11_TempDirsClean ==
    z_pc = "done" =>
        /\ ~z_fs.temp_ziso_exe
        /\ ~PutByCall(z_fs.temp_iso_path)
        /\ ~PutByCall(z_fs.temp_zso_path)

----------------------------------------------------------------------------
(* convert_vcd_to_cue_bin_with_pops2cue.                                   *)

VcdPaths ==
    { DIR_PREFIX \o s \o x : s \in { << "a" >>, << "a", ".", "b" >> },
                             x \in { VCD_SUFFIX, << >> } }
    \cup { DIR_PREFIX \o VCD_SUFFIX }

\* The .cue and .bin names a run may leave next to the VCD: after its stem
\* and after its whole name.
CueBinNames(vcd_path) ==
    { base \o x : base \in { vcd_path, Splitext(vcd_path)[1] },
                  x \in { EXT_CUE, EXT_BIN } }

P2cInit ==
    /\ CoreIdle
    /\ DescIdle /\ SeqIdle /\ ChdIdle
    /\ p2c_vcd \in VcdPaths
    /\ p2c_exe \in BOOLEAN
    /\ p2c_files \in SUBSET CueBinNames(p2c_vcd)
    /\ p2c_rc = NoneV
    /\ p2c_ret = NoneV

\* The same call, but one that gives up on a non-zero exit code.
convert_vcd_to_cue_bin_checking_returncode(raises, rc, made) ==
    /\ p2c_ret = NoneV
    /\ IF ~p2c_exe \/ raises
       THEN /\ p2c_ret' = Some(FALSE)
            /\ UNCHANGED << p2c_files, p2c_rc >>
       ELSE LET base_name == Splitext(p2c_vcd)[1]
                output_cue == base_name \o EXT_CUE
                output_bin == base_name \o EXT_BIN
            IN  /\ p2c_files' = p2c_files \cup made
                /\ p2c_rc' = Some(rc)
                /\ p2c_ret' = Some(rc = 0 /\ output_cue \in p2c_files'
                                          /\ output_bin \in p2c_files')
    /\ UNCHANGED << coreVars, descVars, seqVars, chdVars, p2c_vcd, p2c_exe >>

\* lines 181-221.  raises: Popen fails to start the tool; rc: its exit code;
\* made: the files it writes.
convert_vcd_to_cue_bin_with_pops2cue(raises, rc, made) ==
    /\ p2c_ret = NoneV
    /\ IF ~p2c_exe \/ raises
       THEN /\ p2c_ret' = Some(FALSE)
            /\ UNCHANGED << p2c_files, p2c_rc >>
       ELSE LET base_name == Splitext(p2c_vcd)[1]
                output_cue == base_name \o EXT_CUE
                output_bin == base_name \o EXT_BIN
            IN  /\ p2c_files' = p2c_files \cup made
                /\ p2c_rc' = Some(rc)
                /\ p2c_ret' = Some(output_cue \in p2c_files'
                                   /\ output_bin \in p2c_files')
    /\ UNCHANGED << coreVars, descVars, seqVars, chdVars, p2c_vcd, p2c_exe >>

P2cNext ==
    \E raises \in BOOLEAN, rc \in { 0, 1 }, made \in SUBSET CueBinNames(p2c_vcd) :
        convert_vcd_to_cue_bin_with_pops2cue(raises, rc, made)

SpecP2c == P2cInit /\ [][P2cNext]_vars

\* The tool was started and the function has returned.
P2cRan == p2c_rc # NoneV /\ p2c_ret # NoneV

\* The name with its last extension taken off: what precedes the last dot
\* of the file name, when one stands after the name's first character.
VcdStem ==
    LET name == Basename(p2c_vcd)
        dots == { i \in 2..Len(name) : name[i] = "." }
    IN  IF dots = {} THEN p2c_vcd
        ELSE SubSeq(p2c_vcd, 1,
                    Len(p2c_vcd) - Len(name) + (CHOOSE i \in dots : \A j \in dots : j <= i) - 1)

\* C12: once POPS2CUE.EXE has been run, whatever its exit code, the function
\* returns True exactly when <vcd stem>.cue and <vcd stem>.bin both exist next
\* to the VCD.
C12_ResultIsFilesExist ==
    P2cRan =>
        (p2c_ret[1] <=> (/\ (VcdStem \o EXT_CUE) \in p2c_files
                         /\ (VcdStem \o EXT_BIN) \in p2c_files))

\* A run of a VCD with an extension that ended with a non-zero exit code and
\* returned True.
C12_Witness ==
    /\ P2cRan
    /\ p2c_rc = Some(1)
    /\ p2c_ret = Some(TRUE)
    /\ Len(VcdStem) < Len(p2c_vcd)

----------------------------------------------------------------------------
(* copy_description_cfg.                                                   *)

CFG_EXT == << ".", "c", "f", "g" >>

MaxCodeLen == 3

Codes == StringsUpTo({ "a", "[", "]", " " }, MaxCodeLen)

\* lines 569-571
clean_code(game_code) ==
    LET stripped == Strip(game_code)
    IN  IF StartsWith(stripped, << "[" >>) /\ EndsWith(stripped, << "]" >>)
        THEN Strip(SubSeq(stripped, 2, Len(stripped) - 1))
        ELSE stripped

\* line 574
cfg_filename(game_code) == clean_code(game_code) \o CFG_EXT

\* A directory is the function from the names of its files to their bytes.
\* The directories drawn hold no file, or one file under a .cfg name the
\* call may meet.
DescInit ==
    /\ CoreIdle
    /\ P2cIdle /\ SeqIdle /\ ChdIdle
    /\ d_code \in Codes
    /\ LET names == { c \o CFG_EXT :
                        c \in { d_code, clean_code(d_code),
                                clean_code(<< "[" >> \o d_code \o << "]" >>) } }
           dirs == { << >> } \cup { n :> c : n \in names, c \in Contents }
       IN  /\ d_desc \in { NoneV } \cup { Some(dir) : dir \in dirs }
           /\ d_cfg \in dirs
    /\ d_desc0 = d_desc
    /\ d_ret = NoneV

\* The same call, but one that moves the description instead of copying it.
move_description_cfg(remove_fails, copy_fails) ==
    /\ d_ret = NoneV
    /\ LET name == cfg_filename(d_code)
       IN  IF d_desc = NoneV \/ name \notin DOMAIN d_desc[1]
           THEN d_ret' = Some(FALSE) /\ UNCHANGED << d_cfg, d_desc >>
           ELSE IF name \in DOMAIN d_cfg /\ d_cfg[name] = d_desc[1][name]
           THEN d_ret' = Some(TRUE) /\ UNCHANGED << d_cfg, d_desc >>
           ELSE IF name \in DOMAIN d_cfg /\ remove_fails
           THEN d_ret' = Some(FALSE) /\ UNCHANGED << d_cfg, d_desc >>
           ELSE IF copy_fails
           THEN /\ d_ret' = Some(FALSE)
                /\ d_cfg' = [n \in DOMAIN d_cfg \ { name } |-> d_cfg[n]]
                /\ UNCHANGED d_desc
           ELSE /\ d_ret' = Some(TRUE)
                /\ d_cfg' = [n \in DOMAIN d_cfg \cup { name } |->
                            IF n = name THEN d_desc[1][name] ELSE d_cfg[n]]
                /\ d_desc' = Some([n \in DOMAIN d_desc[1] \ { name } |-> d_desc[1][n]])
    /\ UNCHANGED << coreVars, p2cVars, seqVars, chdVars, d_code, d_desc0 >>

\* lines 560-627.  remove_fails: os.remove of the destination raises;
\* copy_fails: shutil.copy2 raises.
copy_description_cfg(remove_fails, copy_fails) ==
    /\ d_ret = NoneV
    /\ LET name == cfg_filename(d_code)
       IN  IF d_desc = NoneV \/ name \notin DOMAIN d_desc[1]
           THEN d_ret' = Some(FALSE) /\ UNCHANGED << d_cfg, d_desc >>
           ELSE IF name \in DOMAIN d_cfg /\ d_cfg[name] = d_desc[1][name]
           THEN d_ret' = Some(TRUE) /\ UNCHANGED << d_cfg, d_desc >>
           ELSE IF name \in DOMAIN d_cfg /\ remove_fails
           THEN d_ret' = Some(FALSE) /\ UNCHANGED << d_cfg, d_desc >>
           ELSE IF copy_fails
           THEN /\ d_ret' = Some(FALSE)
                /\ d_cfg' = [n \in DOMAIN d_cfg \ { name } |-> d_cfg[n]]
                /\ UNCHANGED d_desc
           ELSE /\ d_ret' = Some(TRUE)
                /\ d_cfg' = [n \in DOMAIN d_cfg \cup { name } |->
                            IF n = name THEN d_desc[1][name] ELSE d_cfg[n]]
                /\ UNCHANGED d_desc
    /\ UNCHANGED << coreVars, p2cVars, seqVars, chdVars, d_code, d_desc0 >>

DescNext ==
    \E remove_fails \in BOOLEAN, copy_fails \in BOOLEAN :
        copy_description_cfg(remove_fails, copy_fails)

SpecDesc == DescInit /\ [][DescNext]_vars

Bracketed(code) == << "[" >> \o code \o << "]" >>

\* <code>.cfg, the code being the text given with the blanks around it and
\* one pair of enclosing brackets taken off, is a file of _description_psx.
DescFound ==
    d_desc0 # NoneV /\ cfg_filename(d_code) \in DOMAIN d_desc0[1]

\* target_dir/CFG holds <code>.cfg with the bytes of the source.
DescCopied ==
    /\ cfg_filename(d_code) \in DOMAIN d_cfg
    /\ d_cfg[cfg_filename(d_code)] = d_desc0[1][cfg_filename(d_code)]

\* True for found and copied, False otherwise; the source directory is as
\* it was.
DescReturnAndSource ==
    /\ d_ret[1] <=> (DescFound /\ DescCopied)
    /\ d_desc = d_desc0

\* C13 as stated: once copy_description_cfg has returned, it returned True
\* for found and copied and False otherwise, the code given and the code
\* given in brackets select the same file, and _description_psx is unchanged.
C13_AsStated ==
    d_ret # NoneV =>
        /\ DescReturnAndSource
        /\ cfg_filename(Bracketed(d_code)) = cfg_filename(d_code)

\* The code, blanks aside, is itself enclosed in brackets.
IsEnclosed(code) ==
    StartsWith(Strip(code), << "[" >>) /\ EndsWith(Strip(code), << "]" >>)

\* C13 as amended: the same, the code given and the code given in brackets
\* selecting the same file when the code is not itself enclosed in brackets.
C13_OneLayerOfBrackets ==
    d_ret # NoneV =>
        /\ DescReturnAndSource
        /\ ~IsEnclosed(d_code) =>
               cfg_filename(Bracketed(d_code)) = cfg_filename(d_code)

\* A description found under a code given with blanks around it, and copied.
C13_Witness ==
    /\ d_ret = Some(TRUE)
    /\ d_code # Strip(d_code)
    /\ clean_code(d_code) # << >>
    /\ ~IsEnclosed(d_code)
    /\ DescFound /\ DescCopied

----------------------------------------------------------------------------
(* convert_chd_to_iso_temp: the loop over the output lines of chdman.      *)

MaxLineLen == 4

\* Output lines: digits and '%' in every order, the same between blanks or
\* around a blank, and the lines with nothing or a blank only.
ChdLines ==
    LET short == StringsUpTo({ "0", "1", "%" }, MaxLineLen - 2)
    IN  StringsUpTo({ "0", "1", "%" }, MaxLineLen)
        \cup { << " " >> \o s \o << " " >> : s \in short }
        \cup { << s[1], " " >> \o Tail(s) : s \in short }
        \cup { << >>, << " " >> }

IsDigit(c) == c \in { "0", "1" }

\* int() of a string of digits
RECURSIVE IntOf(_)
IntOf(digits) ==
    IF digits = << >> THEN 0
    ELSE 10 * IntOf(SubSeq(digits, 1, Len(digits) - 1))
         + (IF digits[Len(digits)] = "1" THEN 1 ELSE 0)

\* The end of the run of digits that starts at i.
RECURSIVE RunEnd(_, _)
RunEnd(line, i) ==
    IF i < Len(line) /\ IsDigit(line[i + 1]) THEN RunEnd(line, i + 1) ELSE i

\* The starts of the matches of (\d+)% in line: \d+ takes the whole run of
\* digits from the start, and a shorter take is followed by a digit, not '%'.
PctStarts(line) ==
    { i \in 1..Len(line) :
        /\ IsDigit(line[i])
        /\ RunEnd(line, i) < Len(line)
        /\ line[RunEnd(line, i) + 1] = "%" }

\* The last match instead of the first.
re_search_pct_last(line) ==
    IF PctStarts(line) = {} THEN NoneV
    ELSE LET i == CHOOSE k \in PctStarts(line) : \A m \in PctStarts(line) : m <= k
         IN  Some(SubSeq(line, i, RunEnd(line, i)))

\* re.search(r"(\d+)%", line), line 116: group(1) of the leftmost match
re_search_pct(line) ==
    IF PctStarts(line) = {} THEN NoneV
    ELSE LET i == CHOOSE k \in PctStarts(line) : \A m \in PctStarts(line) : k <= m
         IN  Some(SubSeq(line, i, RunEnd(line, i)))

\* The state when the loop begins: progress_callback("Iniciando...", 0) has
\* been called (line 99) and last_pct is 0 (line 109).  chd_call is the
\* percentage of the call of progress_callback the latest step made, if any.
ChdInit ==
    /\ CoreIdle
    /\ P2cIdle /\ DescIdle /\ SeqIdle
    /\ chd_line = NoneV
    /\ chd_last_pct = 0
    /\ chd_call = Some(0)

\* lines 112-127: one line of output
ChdLine(raw) ==
    /\ chd_line' = Some(raw)
    /\ LET line == Strip(raw)
           pct_match == re_search_pct(line)
       IN  IF line # << >> /\ pct_match # NoneV /\ IntOf(pct_match[1]) # chd_last_pct
           THEN /\ chd_last_pct' = IntOf(pct_match[1])
                /\ chd_call' = Some(IntOf(pct_match[1]))
           ELSE /\ chd_call' = NoneV
                /\ UNCHANGED chd_last_pct
    /\ UNCHANGED << coreVars, p2cVars, descVars, seqVars >>

ChdNext == \E raw \in ChdLines : ChdLine(raw)

SpecChd == ChdInit /\ [][ChdNext]_vars

\* The places of line where a '%' comes right after a digit.
PctSigns(line) == { k \in 2..Len(line) : line[k] = "%" /\ IsDigit(line[k - 1]) }

\* The integer before the first such '%': the digits before it, back to
\* the nearest character that is no digit.
FirstPct(line) ==
    LET k == CHOOSE m \in PctSigns(line) : \A n \in PctSigns(line) : m <= n
        from == CHOOSE i \in 1..(k - 1) :
                    /\ \A j \in i..(k - 1) : IsDigit(line[j])
                    /\ (i = 1 \/ ~IsDigit(line[i - 1]))
    IN  IntOf(SubSeq(line, from, k - 1))

\* The line just read.
LineRead == chd_line'[1]

\* C15 as stated: a line holding an integer followed by '%' has the progress
\* callback invoked with the first such integer; a line without one brings
\* no call and leaves the progress as it was.
C15_AsStated ==
    [][IF PctSigns(LineRead) # {}
       THEN chd_call' = Some(FirstPct(LineRead))
       ELSE chd_call' = NoneV /\ chd_last_pct' = chd_last_pct]_chdVars

\* C15 as amended: a line holding an integer followed by '%' has the progress
\* callback invoked with the first such integer when it differs from the
\* percentage of the latest line that held one (0 before any), and brings no
\* call when it equals it; a line without one brings no call and leaves the
\* progress as it was.
C15_ReportsChanges ==
    [][IF PctSigns(LineRead) # {} /\ FirstPct(LineRead) # chd_last_pct
       THEN chd_call' = Some(FirstPct(LineRead)) /\ chd_last_pct' = FirstPct(LineRead)
       ELSE chd_call' = NoneV /\ chd_last_pct' = chd_last_pct]_chdVars

\* A line with two percentages has been read and the first of the two, an
\* integer other than 0, was reported.
C15_Witness ==
    /\ chd_line = Some(<< "1", "%", "0", "%" >>)
    /\ chd_call = Some(1)

----------------------------------------------------------------------------
(* process_games and process_game as steps, with the converter processes.  *)

MaxFiles == 3

\* The files selected, by what process_game does with their extension:
\* .chd goes through chdman then cue2pops, .cue and .bin through cue2pops,
\* the others are copied as they are.
SeqInit ==
    /\ CoreIdle
    /\ P2cIdle /\ DescIdle /\ ChdIdle
    /\ q_files \in UNION { [1..n -> { "chd", "cue", "other" }] : n \in 1..MaxFiles }
    /\ q_i = 0
    /\ q_pc = "loop"
    /\ q_procs = {}
    /\ q_rc = 0
    /\ q_ledger = << >>

\* process_games, lines 470-475 of the GUI: the next file of the list, or
\* the end of the loop; process_game, lines 645-697: the branch of its
\* extension
SeqNextFile ==
    /\ q_pc = "loop"
    /\ IF q_i = Len(q_files)
       THEN q_pc' = "finished" /\ UNCHANGED q_i
       ELSE /\ q_i' = q_i + 1
            /\ q_pc' = CASE q_files[q_i + 1] = "chd" -> "chdman"
                         [] q_files[q_i + 1] = "cue" -> "cue2pops"
                         [] OTHER -> "install"
    /\ UNCHANGED << coreVars, p2cVars, descVars, chdVars, q_files, q_procs, q_rc,
                    q_ledger >>

\* Popen of chdman (line 100), subprocess.run of cue2pops (lines 659, 236).
\* found: the tool and the files it needs are there; when they are not,
\* process_game returns False.
SeqStart(found) ==
    /\ q_pc \in { "chdman", "cue2pops" }
    /\ IF found
       THEN /\ q_procs' = q_procs \cup { [file |-> q_i, tool |-> q_pc] }
            /\ q_pc' = IF q_pc = "chdman" THEN "chdman_wait" ELSE "cue2pops_wait"
       ELSE /\ q_pc' = "loop"
            /\ UNCHANGED q_procs
    /\ UNCHANGED << coreVars, p2cVars, descVars, chdVars, q_files, q_i, q_rc, q_ledger >>

\* The same, but going on without waiting for the process to end.
SeqNoWait ==
    /\ q_pc \in { "chdman_wait", "cue2pops_wait" }
    /\ q_pc' = IF q_rc # 0 THEN "loop"
               ELSE IF q_pc = "chdman_wait" THEN "cue2pops" ELSE "install"
    /\ UNCHANGED << coreVars, p2cVars, descVars, chdVars, q_files, q_i, q_procs, q_rc,
                    q_ledger >>

\* process.stdout read to its end and process.wait() (lines 112-130), the
\* return of subprocess.run: the process has ended; a non-zero exit code
\* makes process_game return False.
SeqWait ==
    /\ q_pc \in { "chdman_wait", "cue2pops_wait" }
    /\ \A p \in q_procs : ~(p.file = q_i /\ (p.tool \o "_wait") = q_pc)
    /\ q_pc' = IF q_rc # 0 THEN "loop"
               ELSE IF q_pc = "chdman_wait" THEN "cue2pops" ELSE "install"
    /\ UNCHANGED << coreVars, p2cVars, descVars, chdVars, q_files, q_i, q_procs, q_rc,
                    q_ledger >>

\* process_game, lines 699-732: the assets and the ledger entry
SeqInstall ==
    /\ q_pc = "install"
    /\ q_ledger' = Append(q_ledger, q_i)
    /\ q_pc' = "loop"
    /\ UNCHANGED << coreVars, p2cVars, descVars, chdVars, q_files, q_i, q_procs, q_rc >>

\* A converter process ends with exit code rc.
ProcExit(p, rc) ==
    /\ p \in q_procs
    /\ q_procs' = q_procs \ { p }
    /\ q_rc' = rc
    /\ UNCHANGED << coreVars, p2cVars, descVars, chdVars, q_files, q_i, q_pc, q_ledger >>

SeqNext ==
    \/ SeqNextFile
    \/ \E found \in BOOLEAN : SeqStart(found)
    \/ SeqWait
    \/ SeqInstall
    \/ \E p \in q_procs, rc \in { 0, 1 } : ProcExit(p, rc)

SpecSeq == SeqInit /\ [][SeqNext]_vars

====
